---- MODULE Spec2Model ----
(***************************************************************************)
(* Model of img-utils' asynchronous front end (src/src/app.rs).            *)
(*                                                                         *)
(* The presentation loop (eframe::App::update) runs once per frame: it     *)
(* handles at most one button click (draw_top_panel), refreshes the cached *)
(* textures (draw_central_panel) and drains the task channel               *)
(* (post_update).  A click may spawn a background unit of work (a tokio    *)
(* task).  Units run in parallel on the runtime's worker threads; every    *)
(* access of a unit to shared state (the op_in_progress flag, the library  *)
(* lock, the channel) is one step of the model.                            *)
(***************************************************************************)
EXTENDS Integers, Sequences, FiniteSets

(* ---- bounds ---- *)
MaxUnits == 3       \* background units of work spawned in one behaviour
MaxLive == 2        \* units of work that have been spawned and not ended
NumFiles == 2       \* distinct image files the file dialog can pick
MaxDuration == 2    \* measured durations are drawn from 1..MaxDuration
NumOperations == 2  \* Tools-menu entries the user clicks, in menu order
MaxSetting == 2     \* a slider is at one of the positions 1..MaxSetting
MaxWidth == 2       \* images handed to the dispatcher are 1..MaxWidth wide
MaxHeight == 2      \* and 1..MaxHeight high
MaxStep == 1        \* sample k of a test image is base + step * k (mod 256)
MaxSlack == 1       \* foreign buffers are up to MaxSlack bytes short or long
MaxCalls == 2       \* calls of one cudaimg function that follow each other
MaxRoom == 1        \* free places of the channel when a backlog run starts

(* ---- program constants ---- *)
ChannelCapacity == 32    \* mpsc::channel(32)
PixelSize == 3           \* pixel_size: 3, RGB format (3 bytes per pixel)
HistogramBins == 256     \* vec![0u32; 256]

Units == 1..MaxUnits
Files == 1..NumFiles
Durations == 1..MaxDuration

\* The Tools-menu entries of draw_top_panel in menu order, one
\* ImageProcessingFunction each; every entry spawns the same closure but for
\* the function it passes to process_image.
ToolsMenu ==
    <<"Invert", "GammaTransform", "LogarithmicTransform", "Grayscale",
      "ComputeHistogram", "BalanceHistogram", "BoxFilter", "GaussianBlur",
      "SobelEdgeDetection">>

Min(a, b) == IF a < b THEN a ELSE b

Operations == {ToolsMenu[i] : i \in 1..Min(NumOperations, Len(ToolsMenu))}

\* Option<T>: None is the empty sequence, Some(x) the one-element sequence.
None == <<>>
Some(x) == <<x>>

\* A DynamicImage is identified by the file it was decoded from and the
\* operations the backend has applied to it since.
Opened(path) == [file |-> path, ops |-> <<>>]

\* The field of ImageModifiers behind the slider of a Tools entry, for the
\* entries that have one.
ModifierField ==
    [GammaTransform |-> "gamma", LogarithmicTransform |-> "log_base",
     BoxFilter |-> "box_filter_size", GaussianBlur |-> "gauss_sigma"]

ModifierFields == {ModifierField[op] : op \in DOMAIN ModifierField}
Settings == 1..MaxSetting

\* ImageModifiers::default(): every slider at its first position.
ImageModifiersDefault == [f \in ModifierFields |-> 1]

\* What a Tools entry reads from the sliders when it is clicked.
ParamOf(op, modifiers) ==
    IF op \in DOMAIN ModifierField THEN Some(modifiers[ModifierField[op]])
    ELSE None

\* A value of ImageProcessingFunction: the variant and the scalar it carries.
ImageProcessingFunction(op, param) == [name |-> op, param |-> param]

\* The image process_image returns for `img` and function `f` on success.
Processed(img, f) == [file |-> img.file, ops |-> Append(img.ops, f)]

\* TextureMap::default(); a texture slot is modelled by whether it is Some.
TextureMapDefault == [original_image |-> FALSE, modified_image |-> FALSE]

VARIABLES
    image,                    \* MyApp.image : Option<DynamicImage>
    modified_image,           \* MyApp.modified_image
    image_path_info,          \* MyApp.image_path_info : Option<PathBuf>
    image_modifiers,          \* MyApp.image_modifiers: the slider positions
    texture_map,              \* MyApp.texture_map: which textures are loaded
    last_operation_duration,  \* MyApp.last_operation_duration
    op_in_progress,           \* MyApp.op_in_progress : Arc<Mutex<bool>>
    op_in_progress_mutex,     \* the std Mutex around that bool
    libcudaimg,               \* holder of the Arc<TokioMutex<Library>> lock
    channel,                  \* messages queued between tx and rx
    pc,                       \* position of each spawned unit of work
    kind,                     \* which closure the unit runs
    captured,                 \* what the closure moved in at spawn time
    spawned,                  \* number of units spawned so far
    lastDrained,              \* what the latest post_update received
    dispatch                  \* one call of a cudaimg function, step by step

uivars == <<image, modified_image, image_path_info, texture_map,
            last_operation_duration>>
vars == <<image, modified_image, image_path_info, texture_map,
          last_operation_duration, op_in_progress, libcudaimg, channel,
          pc, kind, captured, spawned, lastDrained, image_modifiers,
          op_in_progress_mutex, dispatch>>

\* The fields of MyApp and the tasks it has spawned.
appvars == <<image, modified_image, image_path_info, texture_map,
             last_operation_duration, op_in_progress, libcudaimg, channel,
             pc, kind, captured, spawned, lastDrained, image_modifiers,
             op_in_progress_mutex>>

\* Mutex::new(false): nobody holds the guard, the mutex is not poisoned.
MutexFree == [holder |-> None, poisoned |-> FALSE]

\* `op_in_progress.lock().unwrap()` returns at once: the mutex is free (it
\* would block on a held mutex and panic on a poisoned one).  The MutexGuard
\* it yields is a temporary of the statement or of the `while`/`if`
\* condition it appears in, and is dropped where that ends.
FlagLockable == op_in_progress_mutex = MutexFree

NoCapture == [image |-> None, path |-> None, op |-> "none", param |-> None]

\* No cudaimg function is being followed step by step.
NoDispatch ==
    [pc |-> "idle", op |-> "none", library |-> {}, backend |-> "none",
     image |-> None, img |-> None, histogram |-> None, observed |-> None,
     result |-> None, looked_up |-> <<>>, calls |-> 0]

\* MyApp::new
AppInit ==
    /\ image = None
    /\ modified_image = None
    /\ image_path_info = None
    /\ image_modifiers = ImageModifiersDefault
    /\ texture_map = TextureMapDefault
    /\ last_operation_duration = None
    /\ op_in_progress = FALSE
    /\ op_in_progress_mutex = MutexFree
    /\ libcudaimg = None
    /\ channel = <<>>
    /\ pc = [u \in Units |-> "unspawned"]
    /\ kind = [u \in Units |-> "none"]
    /\ captured = [u \in Units |-> NoCapture]
    /\ spawned = 0
    /\ lastDrained = <<>>

Init ==
    /\ AppInit
    /\ dispatch = NoDispatch

(***************************************************************************)
(* The presentation loop                                                   *)
(***************************************************************************)

\* The fields of MyApp the presentation loop owns, as one value.
UiState ==
    [image |-> image, modified_image |-> modified_image,
     image_path_info |-> image_path_info, texture_map |-> texture_map,
     last_operation_duration |-> last_operation_duration]

\* draw_central_panel: each texture is loaded once (get_or_insert_with) from
\* the image currently in its slot.
DrawCentralPanel(ui) ==
    [ui EXCEPT !.texture_map =
        [original_image |->
            ui.texture_map.original_image \/ ui.image # None,
         modified_image |->
            ui.texture_map.modified_image \/ ui.modified_image # None]]

\* ApplyResult with the OperationFinished arm filling the slot only when it
\* is empty (Option::get_or_insert instead of an assignment).
ApplyResult_KeepsFirst(ui, result) ==
    IF result.type = "OpenImage"
    THEN [ui EXCEPT !.image = Some(result.image),
                    !.image_path_info = Some(result.path)]
    ELSE IF ui.modified_image # None THEN ui
    ELSE [ui EXCEPT !.modified_image = Some(result.image),
                    !.texture_map = TextureMapDefault,
                    !.last_operation_duration = Some(result.duration)]

\* ApplyResult with the OpenImage arm also clearing the modified image.
ApplyResult_OpenClearsModified(ui, result) ==
    IF result.type = "OpenImage"
    THEN [ui EXCEPT !.image = Some(result.image),
                    !.image_path_info = Some(result.path),
                    !.modified_image = None]
    ELSE [ui EXCEPT !.modified_image = Some(result.image),
                    !.texture_map = TextureMapDefault,
                    !.last_operation_duration = Some(result.duration)]

\* One arm of the match in post_update.
ApplyResult(ui, result) ==
    IF result.type = "OpenImage"
    THEN [ui EXCEPT !.image = Some(result.image),
                    !.image_path_info = Some(result.path)]
    ELSE [ui EXCEPT !.modified_image = Some(result.image),
                    !.texture_map = TextureMapDefault,
                    !.last_operation_duration = Some(result.duration)]

\* try_recv handing out the newest queued message first.
TryRecv_NewestFirst(rx) ==
    IF rx = <<>> THEN [ok |-> FALSE, rest |-> rx]
    ELSE [ok |-> TRUE, result |-> rx[Len(rx)],
          rest |-> SubSeq(rx, 1, Len(rx) - 1)]

\* try_recv handing out the oldest message and dropping the one behind it.
TryRecv_SkipsOne(rx) ==
    IF rx = <<>> THEN [ok |-> FALSE, rest |-> rx]
    ELSE [ok |-> TRUE, result |-> Head(rx),
          rest |-> IF Len(rx) >= 2 THEN Tail(Tail(rx)) ELSE <<>>]

\* rx.try_recv(): the oldest queued message, or nothing; never waits.
TryRecv(rx) ==
    IF rx = <<>> THEN [ok |-> FALSE, rest |-> rx]
    ELSE [ok |-> TRUE, result |-> Head(rx), rest |-> Tail(rx)]

\* post_update: `while let Ok(result) = self.rx.try_recv() { match ... }`.
\* Yields the loop's final state, what is left queued and what was received.
RECURSIVE DrainLoop(_, _, _)
DrainLoop(ui, rx, got) ==
    LET r == TryRecv(rx) IN
    IF r.ok
    THEN DrainLoop(ApplyResult(ui, r.result), r.rest, Append(got, r.result))
    ELSE [ui |-> ui, rx |-> rx, received |-> got]

\* post_update with `if let` in place of `while let`: one message per frame.
PostUpdate_OnePerFrame(ui, rx) ==
    LET r == TryRecv(rx) IN
    IF r.ok
    THEN [ui |-> ApplyResult(ui, r.result), rx |-> r.rest,
          received |-> <<r.result>>]
    ELSE [ui |-> ui, rx |-> rx, received |-> <<>>]

PostUpdate(ui, rx) == DrainLoop(ui, rx, <<>>)

\* What is kept of a received message: who sent it, its variant, and the
\* duration it carries (0 for OpenImage, which carries none).
Brief(m) ==
    [unit |-> m.unit, type |-> m.type,
     duration |-> IF m.type = "OperationFinished" THEN m.duration ELSE 0]

BriefsOf(msgs) == [i \in 1..Len(msgs) |-> Brief(msgs[i])]

\* eframe::App::update after draw_top_panel has left the loop's fields as
\* `ui`: draw_central_panel, which reads the flag for its "Operation in
\* progress..." label, then post_update.
FrameTail(ui) ==
    LET out == PostUpdate(DrawCentralPanel(ui), channel) IN
    /\ FlagLockable
    /\ UNCHANGED op_in_progress_mutex
    /\ image' = out.ui.image
    /\ modified_image' = out.ui.modified_image
    /\ image_path_info' = out.ui.image_path_info
    /\ texture_map' = out.ui.texture_map
    /\ last_operation_duration' = out.ui.last_operation_duration
    /\ channel' = out.rx
    /\ lastDrained' = BriefsOf(out.received)
    /\ UNCHANGED dispatch

\* The unit has been spawned and has not ended.
Running(u) == pc[u] \notin {"unspawned", "done", "panicked", "faulted"}

\* tokio::spawn of closure `k` with the values it moves in.
Spawn(k, cap) ==
    /\ spawned < MaxUnits
    /\ Cardinality({u \in Units : Running(u)}) < MaxLive
    /\ spawned' = spawned + 1
    /\ pc' = [pc EXCEPT ![spawned + 1] = "wait"]
    /\ kind' = [kind EXCEPT ![spawned + 1] = k]
    /\ captured' = [captured EXCEPT ![spawned + 1] = cap]

NoSpawn == UNCHANGED <<pc, kind, captured, spawned>>

\* A frame in which no button is clicked.
FrameIdle ==
    /\ FrameTail(UiState)
    /\ NoSpawn
    /\ UNCHANGED <<op_in_progress, libcudaimg, image_modifiers>>

\* The Open Image handler spawning its task without clearing the image.
ClickOpenImage_KeepsImage ==
    /\ Spawn("open", NoCapture)
    /\ FrameTail([UiState EXCEPT !.modified_image = None,
                                 !.image_path_info = None,
                                 !.texture_map = TextureMapDefault])
    /\ UNCHANGED <<op_in_progress, libcudaimg, image_modifiers>>

\* A frame in which File > Open Image is clicked.
ClickOpenImage ==
    /\ Spawn("open", NoCapture)
    /\ FrameTail([UiState EXCEPT !.image = None, !.modified_image = None,
                                 !.image_path_info = None,
                                 !.texture_map = TextureMapDefault])
    /\ UNCHANGED <<op_in_progress, libcudaimg, image_modifiers>>

\* A frame in which File > Save image is clicked.
ClickSaveImage ==
    /\ IF modified_image # None
       THEN Spawn("save", [image |-> modified_image, path |-> image_path_info,
                           op |-> "none", param |-> None])
       ELSE NoSpawn
    /\ FrameTail(UiState)
    /\ UNCHANGED <<op_in_progress, libcudaimg, image_modifiers>>

\* A Tools entry that drops the previous result when it is clicked.
ClickOperation_ClearsModified(op) ==
    /\ Spawn("op", [image |-> image, path |-> None, op |-> op,
                    param |-> ParamOf(op, image_modifiers)])
    /\ FrameTail([UiState EXCEPT !.modified_image = None,
                                 !.texture_map.modified_image = FALSE])
    /\ UNCHANGED <<op_in_progress, libcudaimg, image_modifiers>>

\* A frame in which a Tools entry (Invert image, Gamma transformation > Run,
\* ..., Sobel edge detection) is clicked.
ClickOperation(op) ==
    /\ Spawn("op", [image |-> image, path |-> None, op |-> op,
                    param |-> ParamOf(op, image_modifiers)])
    /\ FrameTail([UiState EXCEPT !.texture_map.modified_image = FALSE])
    /\ UNCHANGED <<op_in_progress, libcudaimg, image_modifiers>>

\* "Apply current" copying the modified image instead of taking it.
ClickApplyCurrent_Copies ==
    /\ FrameTail(IF modified_image # None
                 THEN [UiState EXCEPT !.image = modified_image,
                                      !.texture_map = TextureMapDefault]
                 ELSE UiState)
    /\ NoSpawn
    /\ UNCHANGED <<op_in_progress, libcudaimg, image_modifiers>>

\* A frame in which "Apply current" is clicked.
ClickApplyCurrent ==
    /\ FrameTail(IF modified_image # None
                 THEN [UiState EXCEPT !.image = modified_image,
                                      !.modified_image = None,
                                      !.texture_map = TextureMapDefault]
                 ELSE UiState)
    /\ NoSpawn
    /\ UNCHANGED <<op_in_progress, libcudaimg, image_modifiers>>

\* A frame in which "Remove current" is clicked.
ClickRemoveCurrent ==
    /\ FrameTail([UiState EXCEPT !.modified_image = None,
                                 !.texture_map = TextureMapDefault])
    /\ NoSpawn
    /\ UNCHANGED <<op_in_progress, libcudaimg, image_modifiers>>

\* A frame in which the slider of a Tools entry is dragged to a new position.
MoveSlider(field, setting) ==
    /\ image_modifiers[field] # setting
    /\ image_modifiers' = [image_modifiers EXCEPT ![field] = setting]
    /\ FrameTail(UiState)
    /\ NoSpawn
    /\ UNCHANGED <<op_in_progress, libcudaimg>>

(***************************************************************************)
(* Background units of work (the closures given to tokio::spawn)           *)
(***************************************************************************)

\* What a step of a unit of work leaves alone besides the shared objects.
othervars == <<uivars, spawned, lastDrained, image_modifiers, dispatch,
               op_in_progress_mutex>>

\* The poll loop keeping the MutexGuard of its read while it sleeps (the
\* guard bound in the loop, as with `while let`).
CheckGuard_HoldsLock(u) ==
    /\ pc[u] = "wait"
    /\ FlagLockable
    /\ IF op_in_progress = FALSE
       THEN /\ pc' = [pc EXCEPT ![u] = "claim"]
            /\ UNCHANGED op_in_progress_mutex
       ELSE /\ op_in_progress_mutex' =
                  [holder |-> Some(u), poisoned |-> FALSE]
            /\ UNCHANGED pc
    /\ UNCHANGED <<uivars, spawned, lastDrained, image_modifiers, dispatch,
                   op_in_progress, libcudaimg, channel, kind, captured>>

\* The closure going on to set the flag without reading it first.
CheckGuard_NoWait(u) ==
    /\ pc[u] = "wait"
    /\ pc' = [pc EXCEPT ![u] = "claim"]
    /\ UNCHANGED <<othervars, op_in_progress, libcudaimg, channel, kind,
                   captured>>

\* `while *op_in_progress.lock().unwrap() { sleep(100ms).await }`: a locked
\* read of the flag that finds it false ends the loop.  A read that finds it
\* true is followed by the sleep and the next read, and changes nothing.
CheckGuard(u) ==
    /\ pc[u] = "wait"
    /\ FlagLockable
    /\ op_in_progress = FALSE
    /\ pc' = [pc EXCEPT ![u] = "claim"]
    /\ UNCHANGED <<othervars, op_in_progress, libcudaimg, channel, kind,
                   captured>>

\* The operation closure entering its block whether or not it has an image.
AfterClaim_IgnoresMissingImage(u) ==
    IF kind[u] = "op" THEN "lock" ELSE "dialog"

\* Where the closure goes after it has set the flag.
AfterClaim(u) ==
    IF kind[u] = "op"
    THEN (IF captured[u].image = None THEN "release" ELSE "lock")
    ELSE "dialog"

\* `*op_in_progress.lock().unwrap() = true;`: a second, separate locked write.
ClaimGuard(u) ==
    /\ pc[u] = "claim"
    /\ FlagLockable
    /\ op_in_progress' = TRUE
    /\ pc' = [pc EXCEPT ![u] = AfterClaim(u)]
    /\ UNCHANGED <<othervars, libcudaimg, channel, kind, captured>>

\* The library lock once unit u has dropped its guard, if it holds one.
LibraryDroppedBy(u) == IF libcudaimg = Some(u) THEN None ELSE libcudaimg

\* A panic that ends the task without running the destructors of its locals:
\* a held library guard is never released.
Unwind_KeepsLibrary(u, how) ==
    /\ pc' = [pc EXCEPT ![u] = how]
    /\ kind' = [kind EXCEPT ![u] = "none"]
    /\ captured' = [captured EXCEPT ![u] = NoCapture]
    /\ UNCHANGED <<othervars, op_in_progress, libcudaimg, channel>>

\* A panic unwinds the task: its locals and captures are dropped (a held
\* library guard is released), the statements after the panic point are not
\* run.  Nothing holds the op_in_progress mutex at a panic point, so it is not
\* poisoned.
Unwind(u, how) ==
    /\ pc' = [pc EXCEPT ![u] = how]
    /\ libcudaimg' = LibraryDroppedBy(u)
    /\ op_in_progress_mutex' =
          IF op_in_progress_mutex.holder = Some(u)
          THEN [holder |-> None, poisoned |-> TRUE]
          ELSE op_in_progress_mutex
    /\ kind' = [kind EXCEPT ![u] = "none"]
    /\ captured' = [captured EXCEPT ![u] = NoCapture]
    /\ UNCHANGED <<uivars, spawned, lastDrained, image_modifiers, dispatch,
                   op_in_progress, channel>>

\* Open Image: FileDialog::pick_file() returns None (cancelled).
OpenCancelled(u) ==
    /\ pc[u] = "dialog" /\ kind[u] = "open"
    /\ pc' = [pc EXCEPT ![u] = "release"]
    /\ UNCHANGED <<othervars, op_in_progress, libcudaimg, channel, kind,
                   captured>>

\* Open Image: a path is picked and image::open succeeds.
OpenLoaded(u) ==
    /\ pc[u] = "dialog" /\ kind[u] = "open"
    /\ pc' = [pc EXCEPT ![u] = "send"]
    /\ UNCHANGED <<othervars, op_in_progress, libcudaimg, channel, kind,
                   captured>>

\* Open Image: image::open fails, `.expect("Failed to open image")` panics.
OpenFails(u) ==
    /\ pc[u] = "dialog" /\ kind[u] = "open"
    /\ Unwind(u, "panicked")

\* Save image: the dialog is cancelled, or the image is saved.
SaveFinished(u) ==
    /\ pc[u] = "dialog" /\ kind[u] = "save"
    /\ pc' = [pc EXCEPT ![u] = "release"]
    /\ UNCHANGED <<othervars, op_in_progress, libcudaimg, channel, kind,
                   captured>>

\* Save image: image.save fails, `.expect("Failed to save image")` panics.
SaveFails(u) ==
    /\ pc[u] = "dialog" /\ kind[u] = "save"
    /\ Unwind(u, "panicked")

\* The library handed to every closure without its mutex.
LockAvailable_Unlocked == TRUE

\* Whether `library.lock().await` can complete now.
LockAvailable == libcudaimg = None

\* The closure sending its message as soon as it holds the library, with
\* no call of process_image before it.
EnterNative_SkipsCall(u) ==
    /\ pc[u] = "lock"
    /\ LockAvailable
    /\ libcudaimg' = Some(u)
    /\ pc' = [pc EXCEPT ![u] = "send"]
    /\ UNCHANGED <<othervars, op_in_progress, channel, kind, captured>>

\* `let library = library.lock().await;` completes, and process_image runs up
\* to the backend's entry point (the steps in between touch only the task's
\* own data).
EnterNative(u) ==
    /\ pc[u] = "lock"
    /\ LockAvailable
    /\ libcudaimg' = Some(u)
    /\ pc' = [pc EXCEPT ![u] = "native"]
    /\ UNCHANGED <<othervars, op_in_progress, channel, kind, captured>>

\* `library.lock().await` completes, but process_image returns Err before any
\* native call (the entry point is not resolved); `.expect("Failed to ...")`
\* panics and the library guard just taken is dropped.
ResolveFails(u) ==
    /\ pc[u] = "lock"
    /\ LockAvailable
    /\ Unwind(u, "panicked")

\* The library guard scoped to the process_image call only: it is dropped
\* when the call returns, before the result is sent.
NativeReturns_DropsLibrary(u) ==
    /\ pc[u] = "native"
    /\ pc' = [pc EXCEPT ![u] = "send"]
    /\ libcudaimg' = LibraryDroppedBy(u)
    /\ UNCHANGED <<othervars, op_in_progress, channel, kind, captured>>

\* The native call returns and process_image yields Ok(modified_image).
NativeReturns(u) ==
    /\ pc[u] = "native"
    /\ pc' = [pc EXCEPT ![u] = "send"]
    /\ UNCHANGED <<othervars, op_in_progress, libcudaimg, channel, kind,
                   captured>>

\* The call faults: process_image fails after entering the backend (Err or a
\* panic while rebuilding the image), and the `.expect` unwinds the task.
NativeFaults(u) ==
    /\ pc[u] = "native"
    /\ Unwind(u, "faulted")

\* The operation closure reading the slider when it calls process_image, not
\* when it is spawned.
Sendable_ReadsSlider(u) ==
    IF kind[u] = "open"
    THEN {[type |-> "OpenImage", image |-> Opened(path), path |-> path,
           unit |-> u] : path \in Files}
    ELSE {[type |-> "OperationFinished",
           image |-> Processed(captured[u].image[1],
                               ImageProcessingFunction(
                                   captured[u].op,
                                   ParamOf(captured[u].op, image_modifiers))),
           duration |-> d, unit |-> u] : d \in Durations}

\* The messages unit u can be sending: the image of the file that was picked,
\* or the processed image with the duration `start.elapsed()` measured.
Sendable(u) ==
    IF kind[u] = "open"
    THEN {[type |-> "OpenImage", image |-> Opened(path), path |-> path,
           unit |-> u] : path \in Files}
    ELSE {[type |-> "OperationFinished",
           image |-> Processed(captured[u].image[1],
                               ImageProcessingFunction(captured[u].op,
                                                       captured[u].param)),
           duration |-> d, unit |-> u] : d \in Durations}

\* The closure using try_send and ignoring its error: a result that finds the
\* channel full is dropped and the closure goes on.
Send_DropsWhenFull(u) ==
    /\ pc[u] = "send"
    /\ IF Len(channel) < ChannelCapacity
       THEN \E msg \in Sendable(u) : channel' = Append(channel, msg)
       ELSE UNCHANGED channel
    /\ libcudaimg' = LibraryDroppedBy(u)
    /\ pc' = [pc EXCEPT ![u] = "release"]
    /\ UNCHANGED <<othervars, op_in_progress, kind, captured>>

\* The closure storing its result in the application's slot itself, with no
\* message sent.
Send_WritesSlot(u) ==
    /\ pc[u] = "send"
    /\ \E msg \in Sendable(u) :
          IF msg.type = "OpenImage"
          THEN image' = Some(msg.image) /\ UNCHANGED modified_image
          ELSE modified_image' = Some(msg.image) /\ UNCHANGED image
    /\ libcudaimg' = LibraryDroppedBy(u)
    /\ pc' = [pc EXCEPT ![u] = "release"]
    /\ UNCHANGED <<image_path_info, texture_map, last_operation_duration,
                   spawned, lastDrained, image_modifiers, dispatch,
                   op_in_progress, op_in_progress_mutex, channel, kind,
                   captured>>

\* `tx.send(...).await.unwrap()` completes once the channel has room; the
\* operation closure then leaves its `if let Some(image) = image` block, which
\* drops the library guard it has held since before the call.
Send(u) ==
    /\ pc[u] = "send"
    /\ Len(channel) < ChannelCapacity
    /\ \E msg \in Sendable(u) : channel' = Append(channel, msg)
    /\ libcudaimg' = LibraryDroppedBy(u)
    /\ pc' = [pc EXCEPT ![u] = "release"]
    /\ UNCHANGED <<othervars, op_in_progress, kind, captured>>

\* The closure ending without its last statement.
ReleaseGuard_LeavesBusy(u) ==
    /\ pc[u] = "release"
    /\ FlagLockable
    /\ pc' = [pc EXCEPT ![u] = "done"]
    /\ kind' = [kind EXCEPT ![u] = "none"]
    /\ captured' = [captured EXCEPT ![u] = NoCapture]
    /\ UNCHANGED <<othervars, op_in_progress, libcudaimg, channel>>

\* `*op_in_progress.lock().unwrap() = false;`, the closure's last statement;
\* the task ends and what it had captured is dropped.
ReleaseGuard(u) ==
    /\ pc[u] = "release"
    /\ FlagLockable
    /\ op_in_progress' = FALSE
    /\ pc' = [pc EXCEPT ![u] = "done"]
    /\ kind' = [kind EXCEPT ![u] = "none"]
    /\ captured' = [captured EXCEPT ![u] = NoCapture]
    /\ UNCHANGED <<othervars, libcudaimg, channel>>

UnitStep(u) ==
    \/ CheckGuard(u)
    \/ ClaimGuard(u)
    \/ OpenCancelled(u)
    \/ OpenLoaded(u)
    \/ OpenFails(u)
    \/ SaveFinished(u)
    \/ SaveFails(u)
    \/ EnterNative(u)
    \/ ResolveFails(u)
    \/ NativeReturns(u)
    \/ NativeFaults(u)
    \/ Send(u)
    \/ ReleaseGuard(u)

Frame ==
    \/ FrameIdle
    \/ ClickOpenImage
    \/ ClickSaveImage
    \/ \E op \in Operations : ClickOperation(op)
    \/ ClickApplyCurrent
    \/ ClickRemoveCurrent
    \/ \E op \in Operations \cap DOMAIN ModifierField, setting \in Settings :
          MoveSlider(ModifierField[op], setting)

Next ==
    \/ Frame
    \/ \E u \in Units : UnitStep(u)

Spec == Init /\ [][Next]_vars

\* The scheduling the runtime provides: a spawned task that can take a step
\* eventually takes one, and frames keep being rendered (request_repaint).
\* Clicks are the user's and are not forced.
FairSpec ==
    /\ Spec
    /\ \A u \in Units : WF_vars(UnitStep(u))
    /\ WF_vars(FrameIdle)

\* A result queued by an operation whose unit has ended: Invert image on the
\* image of file 1.
BacklogMessage ==
    [type |-> "OperationFinished",
     image |-> Processed(Opened(1), ImageProcessingFunction("Invert", None)),
     duration |-> 1, unit |-> 0]

\* The application with a backlog: the image of file 1 is loaded, Invert
\* image was clicked more often than the channel has places while no frame
\* got to run post_update, the operations that ended have left all but
\* `room` places of the channel taken, and the last n units still wait for
\* the guard.
BacklogInit ==
    \E n \in 1..MaxLive, room \in 0..MaxRoom :
        /\ image = Some(Opened(1))
        /\ modified_image = None
        /\ image_path_info = Some(1)
        /\ image_modifiers = ImageModifiersDefault
        /\ texture_map = [original_image |-> TRUE, modified_image |-> FALSE]
        /\ last_operation_duration = None
        /\ op_in_progress = FALSE
        /\ op_in_progress_mutex = MutexFree
        /\ libcudaimg = None
        /\ channel = [i \in 1..(ChannelCapacity - room) |-> BacklogMessage]
        /\ pc = [u \in Units |-> IF u <= n THEN "wait" ELSE "unspawned"]
        /\ kind = [u \in Units |-> IF u <= n THEN "op" ELSE "none"]
        /\ captured =
              [u \in Units |->
                  IF u <= n
                  THEN [image |-> Some(Opened(1)), path |-> None,
                        op |-> "Invert", param |-> None]
                  ELSE NoCapture]
        /\ spawned = n
        /\ lastDrained = <<>>
        /\ dispatch = NoDispatch

ChannelSpec == BacklogInit /\ [][Next]_vars

(***************************************************************************)
(* The dispatcher: the functions of src/src/cudaimg.rs                     *)
(*                                                                         *)
(* One call of a cudaimg function is followed step by step: entry-point    *)
(* lookup, to_cuda_image_data, the native call, RgbImage::from_raw.  The   *)
(* image, the library and the backend behind it are inputs.                *)
(***************************************************************************)

\* The pixel layouts of the DynamicImage values handed in, and their number
\* of samples per pixel.
Colors == {"Rgb8", "Rgba8"}
ChannelCount(color) == IF color = "Rgba8" THEN 4 ELSE 3

\* Test images: a DynamicImage is its layout, its size and its samples in
\* row-major order.  Sample k (from 0) of a test image is base + step * k.
BaseBytes == {0, 128, 255}

TestImage(color, w, h, base, step) ==
    [color |-> color, width |-> w, height |-> h,
     data |-> [k \in 1..(w * h * ChannelCount(color)) |->
                  (base + step * (k - 1)) % 256]]

Images ==
    {TestImage(color, w, h, base, step) :
        color \in Colors, w \in 1..MaxWidth, h \in 1..MaxHeight,
        base \in BaseBytes, step \in 0..MaxStep}

\* to_rgb8 writing each pixel's samples in blue, green, red order.
ToRgb8_Bgr(img) ==
    [color |-> "Rgb8", width |-> img.width, height |-> img.height,
     data |-> [k \in 1..(img.width * img.height * 3) |->
                  img.data[((k - 1) \div 3) * ChannelCount(img.color)
                           + (2 - ((k - 1) % 3)) + 1]]]

\* DynamicImage::to_rgb8: the red, green and blue samples of every pixel, in
\* row-major order; an alpha sample is dropped.
ToRgb8(img) ==
    [color |-> "Rgb8", width |-> img.width, height |-> img.height,
     data |-> [k \in 1..(img.width * img.height * 3) |->
                  img.data[((k - 1) \div 3) * ChannelCount(img.color)
                           + ((k - 1) % 3) + 1]]]

\* to_cuda_image_data taking the image's samples as stored, without the
\* conversion to RGB.
ToCudaImageData_RawSamples(img) ==
    [bytes |-> img.data, raw_len |-> Len(img.data), width |-> img.width,
     height |-> img.height, pixel_size |-> PixelSize]

\* ToCudaImageData::to_cuda_image_data
ToCudaImageData(img) ==
    LET img_rgb8 == ToRgb8(img)
        bytes == img_rgb8.data
    IN  [bytes |-> bytes, raw_len |-> Len(bytes), width |-> img_rgb8.width,
         height |-> img_rgb8.height, pixel_size |-> PixelSize]

\* CudaHistogramData::default with one entry short.
CudaHistogramDataDefault_OneShort == [k \in 1..(HistogramBins - 1) |-> 0]

\* CudaHistogramData::default: vec![0u32; 256]
CudaHistogramDataDefault == [k \in 1..HistogramBins |-> 0]

\* image::RgbImage::from_raw(width, height, buf): None when the container is
\* too small for width x height pixels, else the image over the container.
FromRaw(width, height, buf) ==
    IF Len(buf) >= width * height * 3
    THEN Some([color |-> "Rgb8", width |-> width, height |-> height,
               data |-> buf])
    ELSE None

\* The image rebuilt with width and height exchanged.
Rewrap_Transposed(img) ==
    LET raw == FromRaw(img.height, img.width, img.bytes) IN
    IF raw = None THEN [outcome |-> "panic", value |-> None]
    ELSE [outcome |-> "Ok", value |-> raw]

\* `DynamicImage::ImageRgb8(RgbImage::from_raw(img.width, img.height,
\* img.bytes).expect("Failed to create the modified image from bytes"))`
\* followed by `Ok(...)`: the function's outcome.
Rewrap(img) ==
    LET raw == FromRaw(img.width, img.height, img.bytes) IN
    IF raw = None THEN [outcome |-> "panic", value |-> None]
    ELSE [outcome |-> "Ok", value |-> raw]

\* The table with grayscale_image looking up the entry point of invert_image.
DispatchTable_SharedSymbol ==
    [Invert |-> [symbol |-> <<"invertImage", 0>>, trailing |-> <<>>],
     GammaTransform |->
        [symbol |-> <<"gammaTransformImage", 0>>, trailing |-> <<"gamma">>],
     LogarithmicTransform |->
        [symbol |-> <<"logarithmicTransformImage", 0>>,
         trailing |-> <<"base">>],
     Grayscale |-> [symbol |-> <<"invertImage", 0>>, trailing |-> <<>>],
     ComputeHistogram |->
        [symbol |-> <<"computeHistogram", 0>>, trailing |-> <<>>],
     BalanceHistogram |->
        [symbol |-> <<"balanceHistogram", 0>>, trailing |-> <<>>],
     BoxFilter |->
        [symbol |-> <<"boxFilter", 0>>, trailing |-> <<"filter_size">>],
     GaussianBlur |->
        [symbol |-> <<"gaussFilter", 0>>,
         trailing |-> <<"filter_size", "sigma">>]]

\* The functions of cudaimg.rs by the operation they serve: the entry point
\* each looks up, as the name and the zero byte that ends it
\* (`b"invertImage\0"`), and the scalars each passes after (image,
\* image_len, width, height).
DispatchTable ==
    [Invert |-> [symbol |-> <<"invertImage", 0>>, trailing |-> <<>>],
     GammaTransform |->
        [symbol |-> <<"gammaTransformImage", 0>>, trailing |-> <<"gamma">>],
     LogarithmicTransform |->
        [symbol |-> <<"logarithmicTransformImage", 0>>,
         trailing |-> <<"base">>],
     Grayscale |-> [symbol |-> <<"grayscaleImage", 0>>, trailing |-> <<>>],
     ComputeHistogram |->
        [symbol |-> <<"computeHistogram", 0>>, trailing |-> <<>>],
     BalanceHistogram |->
        [symbol |-> <<"balanceHistogram", 0>>, trailing |-> <<>>],
     BoxFilter |->
        [symbol |-> <<"boxFilter", 0>>, trailing |-> <<"filter_size">>],
     GaussianBlur |->
        [symbol |-> <<"gaussFilter", 0>>,
         trailing |-> <<"filter_size", "sigma">>]]

Functions == DOMAIN DispatchTable

\* The variants of ImageProcessingFunction that process_image dispatches on.
OperationVariants ==
    {"Invert", "GammaTransform", "LogarithmicTransform", "Grayscale",
     "ComputeHistogram", "BalanceHistogram", "BoxFilter", "GaussianBlur",
     "SobelEdgeDetection", "LaplaceEdgeDetection", "HarrisCornerDetection"}

\* The entry points of the three detectors, which have no function in
\* cudaimg.rs.
DetectorSymbols ==
    [SobelEdgeDetection |-> <<"sobelEdgeDetection", 0>>,
     LaplaceEdgeDetection |-> <<"laplaceEdgeDetection", 0>>,
     HarrisCornerDetection |-> <<"harrisCornerDetection", 0>>]

\* The entry point process_image looks up for each variant.
ProcessImageSymbol ==
    [v \in OperationVariants |->
        IF v \in Functions THEN DispatchTable[v].symbol
        ELSE DetectorSymbols[v]]

\* The libraries handed in: one exporting every entry point, one exporting
\* none of them.
AllSymbols == {DispatchTable[f].symbol : f \in Functions}
Libraries == {AllSymbols, {}}

\* The arguments of the native call in the order they are written:
\* compute_histogram passes the histogram's data pointer between the byte
\* length and the row stride.
ArgumentOrder(f) ==
    <<"image", "image_len">>
    \o (IF f = "ComputeHistogram" THEN <<"histogram">> ELSE <<>>)
    \o <<"width", "height">> \o DispatchTable[f].trailing

\* The arguments with the pixel width passed where the row stride belongs.
NativeArgs_RawWidth(f, img) ==
    [image_len |-> img.raw_len, width |-> img.width, height |-> img.height,
     histogram |-> f = "ComputeHistogram",
     trailing |-> DispatchTable[f].trailing, order |-> ArgumentOrder(f)]

\* The arguments of the native call, after the pointer to the bytes:
\* `img.raw_len, [histogram.data.as_mut_ptr(),] img.width * img.pixel_size,
\* img.height, ...`.
NativeArgs(f, img) ==
    [image_len |-> img.raw_len, width |-> img.width * img.pixel_size,
     height |-> img.height, histogram |-> f = "ComputeHistogram",
     trailing |-> DispatchTable[f].trailing, order |-> ArgumentOrder(f)]

\* The backends behind the entry points that work on the bytes in place: what
\* each leaves in a byte it was given.
Backends == {"identity", "halve", "invert"}

MutateByte(backend, b) ==
    CASE backend = "halve" -> b \div 2
      [] backend = "invert" -> 255 - b
      [] OTHER -> b

\* An in-place entry point: it rewrites the image_len bytes it was pointed
\* at and has no way to change how many there are.
NativeImageCall(backend, bytes, args) ==
    [i \in 1..Len(bytes) |->
        IF i <= args.image_len THEN MutateByte(backend, bytes[i])
        ELSE bytes[i]]

\* The pixels a backend walks given the row stride and the height it was
\* passed, as offsets of their first byte, and the bin of the pixel at an
\* offset (the mean of its three samples).
PixelOffsets(args) ==
    {row * args.width + PixelSize * col :
        row \in 0..(args.height - 1),
        col \in 0..((args.width \div PixelSize) - 1)}

IntensityAt(bytes, off) ==
    (bytes[off + 1] + bytes[off + 2] + bytes[off + 3]) \div 3

\* computeHistogram of a backend that counts each pixel once into the bin of
\* its intensity, adding to the buffer it was pointed at.
NativeHistogramCall(bytes, histogram, args) ==
    [k \in 1..Len(histogram) |->
        histogram[k] + Cardinality(
            {off \in PixelOffsets(args) :
                /\ off + PixelSize <= args.image_len
                /\ IntensityAt(bytes, off) = k - 1})]

\* What a call of function f is given.
DispatchInit ==
    /\ AppInit
    /\ dispatch \in
        {[NoDispatch EXCEPT !.pc = "start", !.op = f, !.library = lib,
                            !.backend = b, !.image = img] :
            f \in Functions, lib \in Libraries, b \in Backends,
            img \in Images}

\* `libcudaimg.get(b"...\0")?`: the function returns the lookup's error when
\* the library does not export the entry point.
ResolveSymbol ==
    /\ dispatch.pc = "start"
    /\ dispatch' =
        LET symbol == DispatchTable[dispatch.op].symbol
            looked_up == Append(dispatch.looked_up, symbol)
        IN  IF symbol \in dispatch.library
            THEN [dispatch EXCEPT !.pc = "resolved", !.looked_up = looked_up]
            ELSE [dispatch EXCEPT
                    !.pc = "returned", !.looked_up = looked_up,
                    !.result = [outcome |-> "Err", value |-> None]]
    /\ UNCHANGED appvars

\* compute_histogram counting into the histogram of the call before it when
\* there is one.
Encode_KeepsHistogram ==
    /\ dispatch.pc = "resolved"
    /\ dispatch' =
        [dispatch EXCEPT
            !.pc = "encoded",
            !.img = ToCudaImageData(dispatch.image),
            !.histogram = IF dispatch.op = "ComputeHistogram"
                          THEN IF dispatch.histogram = None
                               THEN CudaHistogramDataDefault
                               ELSE dispatch.histogram
                          ELSE None]
    /\ UNCHANGED appvars

\* `let mut histogram = CudaHistogramData::default();` (compute_histogram
\* only) and `let mut img = image.to_cuda_image_data();`.
Encode ==
    /\ dispatch.pc = "resolved"
    /\ dispatch' =
        [dispatch EXCEPT
            !.pc = "encoded",
            !.img = ToCudaImageData(dispatch.image),
            !.histogram = IF dispatch.op = "ComputeHistogram"
                          THEN CudaHistogramDataDefault ELSE None]
    /\ UNCHANGED appvars

\* `unsafe { process_image(img.bytes.as_mut_ptr(), ...) }`: the backend sees
\* the arguments and writes through the pointers.
NativeCall ==
    /\ dispatch.pc = "encoded"
    /\ LET args == NativeArgs(dispatch.op, dispatch.img)
           bytes == dispatch.img.bytes
       IN  dispatch' =
             IF dispatch.op = "ComputeHistogram"
             THEN [dispatch EXCEPT
                     !.pc = "called", !.observed = args,
                     !.histogram =
                         NativeHistogramCall(bytes, dispatch.histogram, args)]
             ELSE [dispatch EXCEPT
                     !.pc = "called", !.observed = args,
                     !.img.bytes =
                         NativeImageCall(dispatch.backend, bytes, args)]
    /\ UNCHANGED appvars

\* The function's tail: `Ok(histogram)`, or the image rebuilt from the bytes.
Return ==
    /\ dispatch.pc = "called"
    /\ dispatch' =
        [dispatch EXCEPT
            !.pc = "returned",
            !.result = IF dispatch.op = "ComputeHistogram"
                       THEN [outcome |-> "Ok", value |-> dispatch.histogram]
                       ELSE Rewrap(dispatch.img)]
    /\ UNCHANGED appvars

\* The caller calls the function once more on the same image and library,
\* still holding what the call before returned.
CallAgain ==
    /\ dispatch.pc = "returned"
    /\ dispatch.calls + 1 < MaxCalls
    /\ dispatch' =
        [dispatch EXCEPT
            !.pc = "start", !.calls = dispatch.calls + 1, !.img = None,
            !.observed = None, !.result = None, !.looked_up = <<>>]
    /\ UNCHANGED appvars

\* The codec alone: to_cuda_image_data followed by the rebuild of the image,
\* with no native call in between.
RoundTrip ==
    /\ dispatch.pc = "start"
    /\ dispatch' =
        [dispatch EXCEPT
            !.pc = "roundtrip",
            !.img = ToCudaImageData(dispatch.image),
            !.result = Rewrap(ToCudaImageData(dispatch.image))]
    /\ UNCHANGED appvars

\* `buf` cut or zero-padded to n bytes.
Resized(buf, n) ==
    [i \in 1..n |-> IF i <= Len(buf) THEN buf[i] ELSE 0]

\* The rebuild of the image applied to a buffer the dispatcher did not
\* produce: the bytes are up to MaxSlack short or long of width * height *
\* pixel_size.
DecodeForeign ==
    /\ dispatch.pc = "start"
    /\ \E slack \in (0 - MaxSlack)..MaxSlack :
          LET img == ToCudaImageData(dispatch.image)
              buf == [img EXCEPT
                        !.bytes = Resized(img.bytes, Len(img.bytes) + slack)]
          IN  dispatch' = [dispatch EXCEPT !.pc = "decoded", !.img = buf,
                                           !.result = Rewrap(buf)]
    /\ UNCHANGED appvars

DispatchNext ==
    \/ ResolveSymbol
    \/ Encode
    \/ NativeCall
    \/ Return
    \/ CallAgain
    \/ RoundTrip
    \/ DecodeForeign

DispatchSpec == DispatchInit /\ [][DispatchNext]_vars

(***************************************************************************)
(* The sizes handed to the backend, at their machine width                 *)
(*                                                                         *)
(* A byte count can exceed what one integer of the checker holds, so the   *)
(* sizes of a large image are kept as five digits in base 2^15, lowest     *)
(* first.  2^32 is digit 3 reaching 4.                                     *)
(***************************************************************************)

Limb == 2^15

\* The digits of a number below 2^31.
ToLimbs(n) ==
    <<n % Limb, (n \div Limb) % Limb, n \div (Limb * Limb), 0, 0>>

\* Five digit sums brought back to digits below the base.
Carry(c) ==
    LET s2 == c[2] + (c[1] \div Limb)
        s3 == c[3] + (s2 \div Limb)
        s4 == c[4] + (s3 \div Limb)
        s5 == c[5] + (s4 \div Limb)
    IN  <<c[1] % Limb, s2 % Limb, s3 % Limb, s4 % Limb, s5>>

\* The product of two numbers below 2^31, and of a number and 3.
WideMul(a, b) ==
    Carry(<<a[1] * b[1],
            a[1] * b[2] + a[2] * b[1],
            a[1] * b[3] + a[2] * b[2] + a[3] * b[1],
            a[2] * b[3] + a[3] * b[2],
            a[3] * b[3]>>)

TimesPixelSize(a) == Carry([k \in 1..5 |-> a[k] * PixelSize])

FitsU32(a) == a[3] < 4 /\ a[4] = 0 /\ a[5] = 0

\* `as u16` in place of `as u32`.
AsU32_AsU16(a) == <<a[1], a[2] % 2, 0, 0, 0>>

\* `bytes.len() as u32`: the low 32 bits of the usize.
AsU32(a) == <<a[1], a[2], a[3] % 4, 0, 0>>

\* `img.width * img.pixel_size` on u32: the product when it fits; when it
\* does not, a panic in a build with overflow checks and the low 32 bits in
\* a build without.
MulU32(a, b) ==
    LET product == WideMul(a, b) IN
    IF FitsU32(product) THEN {[outcome |-> "Ok", value |-> product]}
    ELSE {[outcome |-> "Ok", value |-> AsU32(product)],
          [outcome |-> "panic", value |-> None]}

\* Widths and heights of the images whose sizes are followed: none (an
\* image buffer of no rows or no columns is a valid, empty one), small ones,
\* 4096, the two either side of the largest square whose bytes fit 32 bits,
\* the 16-bit boundary, and the two widths either side of the largest
\* whose row fits 32 bits.
SizeSamples ==
    {0, 1, 2, 3, 640, 4096, 37837, 37838, 65535, 65536, 1431655765, 1431655766}

\* to_cuda_image_data and the native call of invert_image are about to run
\* on an image of w x h pixels.
SizeInit ==
    /\ AppInit
    /\ dispatch \in
        {[NoDispatch EXCEPT !.pc = "measure", !.op = "Invert",
                            !.image = [width |-> w, height |-> h]] :
            w \in SizeSamples, h \in SizeSamples}

\* `let raw_len = bytes.len() as u32;` over the w * h * 3 bytes to_rgb8
\* yields, then `img.raw_len, img.width * img.pixel_size, img.height` in the
\* native call.
MeasureSizes ==
    /\ dispatch.pc = "measure"
    /\ LET w == ToLimbs(dispatch.image.width)
           h == ToLimbs(dispatch.image.height)
           len == TimesPixelSize(WideMul(w, h))
       IN  \E stride \in MulU32(w, ToLimbs(PixelSize)) :
              dispatch' =
                [dispatch EXCEPT
                    !.pc = "measured",
                    !.result = [outcome |-> stride.outcome, value |-> None],
                    !.observed =
                        IF stride.outcome = "panic" THEN None
                        ELSE [image_len |-> AsU32(len),
                              width |-> stride.value, height |-> h]]
    /\ UNCHANGED appvars

SizeSpec == SizeInit /\ [][MeasureSizes]_vars

(***************************************************************************)
(* Properties                                                              *)
(***************************************************************************)

\* The unit is between the start and the return of its native call.
InNative(u) == pc[u] = "native"

\* The unit is between its own set-Busy and its own set-Free.
InGuarded(u) ==
    pc[u] \in {"dialog", "lock", "native", "send", "release"}

\* The OperationFinished messages of a sequence of messages, in order.
IsFinished(m) == m.type = "OperationFinished"
FinishedIn(msgs) == SelectSeq(msgs, IsFinished)
LastOf(msgs) == msgs[Len(msgs)]

\* C1: at most one unit of work is inside a native backend call at any
\* instant, whatever the interleaving of the submitted operations.
C1_SingleNativeCall ==
    \A u, v \in Units : (InNative(u) /\ InNative(v)) => u = v

\* Two operations are past the guard at once: one is in its native call, the
\* other is held back at the library lock.
C1_Witness ==
    \E u, v \in Units : u # v /\ InNative(u) /\ pc[v] = "lock"

\* C2: the guard is claimed atomically, so at most one unit of work
\* (operation, image load or save) is between its own set-Busy and its own
\* set-Free.
C2_AtomicClaim ==
    \A u, v \in Units : (InGuarded(u) /\ InGuarded(v)) => u = v

\* C3: every unit that set the guard Busy sets it back to Free on every exit
\* path, so once no unit of work is running the guard is Free.
C3_GuardReleasedOnEveryExit ==
    (\A u \in Units : ~Running(u)) => op_in_progress = FALSE

\* C4: after a fault inside the native call of one operation the guard
\* eventually returns to Free (so that a later operation can claim it).
C4_GuardFreeAfterFault ==
    \A u \in Units : (pc[u] = "faulted") ~> (op_in_progress = FALSE)

\* C5: whenever a unit of work is inside a native backend call, the guard
\* flag is Busy.
C5_FlagBusyDuringNativeCall ==
    (\E u \in Units : InNative(u)) => op_in_progress = TRUE

\* C6: an Open Image unit is never inside its guarded load section while an
\* operation unit is inside its guarded section or its native call.
C6_LoadSerializedWithOperations ==
    \A u, v \in Units :
        ~(kind[u] = "open" /\ InGuarded(u) /\ kind[v] = "op" /\ InGuarded(v))

\* C7: a stale completion is discarded: the modified-image slot never holds
\* a result computed from an image other than the one in the current-image
\* slot (in particular none while the current image has been cleared by
\* Open Image).
C7_StaleCompletionDiscarded ==
    modified_image # None =>
        /\ image # None
        /\ modified_image[1].file = image[1].file

\* C8: the channel is FIFO in completion order: a send that completes
\* queues its message behind every message whose send completed before, and
\* what a poll receives, in the order it receives it, followed by what it
\* leaves queued, is the queue as it stood, whatever the order in which the
\* units were submitted.
C8_FifoCompletionOrder ==
    [][/\ Len(channel') > Len(channel) =>
            SubSeq(channel', 1, Len(channel)) = channel
       /\ Len(channel') < Len(channel) =>
            lastDrained' \o BriefsOf(channel') = BriefsOf(channel)]_vars

\* One poll received two results of which the one submitted later completed
\* its send first, and got them in completion order.
C8_Witness ==
    /\ Len(lastDrained) >= 2
    /\ lastDrained[1].unit > lastDrained[2].unit

\* C9: last drained wins: after a poll that drains one or more
\* OperationFinished results, the modified-image slot holds the image of the
\* last of them and the last-operation duration is that result's duration.
C9_LastDrainedWins ==
    [][(Len(channel') < Len(channel) /\ FinishedIn(channel) # <<>>) =>
          /\ modified_image' = Some(LastOf(FinishedIn(channel)).image)
          /\ last_operation_duration' =
                Some(LastOf(FinishedIn(channel)).duration)]_vars

\* One poll drained two OperationFinished results with different durations,
\* and the slots hold the second one.
C9_Witness ==
    LET done == FinishedIn(lastDrained) IN
    /\ Len(done) >= 2
    /\ done[1].duration # LastOf(done).duration
    /\ modified_image # None
    /\ last_operation_duration = Some(LastOf(done).duration)

\* C10: the per-frame poll never waits (a frame can always run, whatever the
\* channel holds and whatever the units of work are doing), and when it
\* returns everything that was queued has been received.
C10_PollDrainsWithoutBlocking ==
    /\ [](ENABLED FrameIdle)
    /\ [][Frame =>
            /\ channel' = <<>>
            /\ \A i \in 1..Len(channel) :
                  \E j \in 1..Len(lastDrained') :
                      lastDrained'[j] = Brief(channel[i])]_vars

\* A poll received two queued messages at once and left the channel empty
\* while a unit of work was still inside its guarded section.
C10_Witness ==
    /\ Len(lastDrained) >= 2
    /\ channel = <<>>
    /\ \E u \in Units : InGuarded(u)

\* How many of the messages of `msgs` unit u sent.
SentBy(msgs, u) == Cardinality({i \in 1..Len(msgs) : msgs[i].unit = u})

\* C11: every result a unit has sent is consumed exactly once: in every
\* step, for every unit, what is queued afterwards plus what the poll of
\* that step received is what was queued before plus what the unit sent in
\* that step; a unit has at most one result queued, and nothing is received
\* outside a frame.
C11_ConsumedExactlyOnce ==
    [][\A u \in Units :
          LET sent == IF pc[u] = "send" /\ pc'[u] = "release" THEN 1 ELSE 0
              received == IF Frame THEN SentBy(lastDrained', u) ELSE 0
          IN  /\ SentBy(channel', u) <= 1
              /\ SentBy(channel', u) + received = SentBy(channel, u) + sent
      ]_vars

\* A poll has consumed the result of one operation, and the result of
\* another unit has been queued since.
C11_Witness ==
    /\ Len(lastDrained) >= 1
    /\ lastDrained[1].type = "OperationFinished"
    /\ Len(channel) >= 1

\* C12 as stated: the current-image and modified-image references change
\* only in a step of the consumer loop that reads the channel.
C12_ReplacedOnlyAfterChannelRead ==
    [][(image' # image \/ modified_image' # modified_image) =>
          Len(channel') < Len(channel)]_vars

\* C12, amended: the two references change only in the presentation loop:
\* in a frame whose poll receives a result, or in a frame in which Open
\* Image, Apply current or Remove current is clicked; no step of a background
\* unit of work changes either.
C12_ReplacedOnlyByPresentationLoop ==
    [][(image' # image \/ modified_image' # modified_image) =>
          \/ Len(channel') < Len(channel)
          \/ ClickOpenImage
          \/ ClickApplyCurrent
          \/ ClickRemoveCurrent]_vars

\* The current image is a result that "Apply current" moved into the slot.
C12_Witness ==
    /\ image # None
    /\ image[1].ops # <<>>
    /\ modified_image = None

\* C13: a failed entry-point resolution is recoverable: a unit that leaves
\* the library lock without entering a native call goes on to its set-Free
\* step (the operation is aborted, the unit does not crash, the guard is
\* released), and queues no result.
C13_ResolutionFailureRecoverable ==
    [][\A u \in Units :
          (pc[u] = "lock" /\ pc'[u] \notin {"lock", "native"}) =>
              /\ pc'[u] = "release"
              /\ channel' = channel]_vars

\* C20 as stated: of two operation results queued together (the later unit
\* was submitted before the earlier one had completed), where the unit
\* submitted first is the slow one, the fast one is queued first.
C20_FastDeliveredFirst ==
    \A i, j \in 1..Len(channel) :
        (/\ IsFinished(channel[i]) /\ IsFinished(channel[j])
         /\ channel[i].unit < channel[j].unit
         /\ channel[i].duration > channel[j].duration) => j < i

\* C20, amended: results are delivered in the order the native calls
\* completed, whatever their speed: an operation's result is queued, last, by
\* the unit that still holds the library, before any other native call can
\* start; and after a poll the modified-image slot holds the result that was
\* drained last.
C20_DeliveredInCompletionOrder ==
    [][/\ Len(channel') > Len(channel) =>
            LET msg == channel'[Len(channel')] IN
            IsFinished(msg) =>
                /\ libcudaimg = Some(msg.unit)
                /\ \A v \in Units : ~InNative(v)
       /\ (Frame /\ FinishedIn(channel) # <<>>) =>
            modified_image' = Some(LastOf(FinishedIn(channel)).image)]_vars

\* A slow operation was submitted first and a fast one second; one poll
\* drained the fast one's result first and the slow one's last, and the
\* slots hold the slow one's.
C20_Witness ==
    /\ Len(lastDrained) = 2
    /\ lastDrained[1].type = "OperationFinished"
    /\ lastDrained[2].type = "OperationFinished"
    /\ lastDrained[1].unit > lastDrained[2].unit
    /\ lastDrained[1].duration < lastDrained[2].duration
    /\ modified_image # None
    /\ last_operation_duration = Some(lastDrained[2].duration)

(* ---- the dispatcher's claims, under DispatchSpec ---- *)

\* Sample c (0 red, 1 green, 2 blue) of the pixel at (x, y).
GetPixel(img, x, y, c) ==
    img.data[(y * img.width + x) * ChannelCount(img.color) + c + 1]

\* The sum of q[lo..hi], and of all of q.
RECURSIVE SumRange(_, _, _)
SumRange(q, lo, hi) ==
    IF lo > hi THEN 0
    ELSE IF lo = hi THEN q[lo]
    ELSE LET mid == (lo + hi) \div 2
         IN  SumRange(q, lo, mid) + SumRange(q, mid + 1, hi)

SumSeq(q) == SumRange(q, 1, Len(q))

\* C14: for every function, the third scalar the backend is passed is the
\* row stride width * 3 and the fourth is the height; it is never the pixel
\* width.
C14_StrideIsBytesPerRow ==
    dispatch.observed # None =>
        /\ dispatch.observed.width = dispatch.image.width * 3
        /\ dispatch.observed.width # dispatch.image.width
        /\ dispatch.observed.height = dispatch.image.height

\* The backend has been called for a histogram of an image two pixels wide
\* and saw a stride of six.
C14_Witness ==
    /\ dispatch.pc = "called"
    /\ dispatch.op = "ComputeHistogram"
    /\ dispatch.image.width = 2
    /\ dispatch.observed.width = 6

\* C15: right before and right after the native call the buffer holds
\* width * height * 3 bytes, as many after as before, and the length the
\* backend is passed is that number.
C15_BufferSizeInvariant ==
    dispatch.pc \in {"encoded", "called"} =>
        /\ Len(dispatch.img.bytes) =
              dispatch.image.width * dispatch.image.height * 3
        /\ dispatch.img.width = dispatch.image.width
        /\ dispatch.img.height = dispatch.image.height
        /\ NativeArgs(dispatch.op, dispatch.img).image_len =
              Len(dispatch.img.bytes)
        /\ dispatch.pc = "called" =>
              dispatch.observed.image_len = Len(dispatch.img.bytes)

\* A 2x2 image with alpha has been through a byte-changing native call and
\* its buffer holds 12 bytes.
C15_Witness ==
    /\ dispatch.pc = "called"
    /\ dispatch.image.color = "Rgba8"
    /\ dispatch.image.width = 2 /\ dispatch.image.height = 2
    /\ dispatch.backend = "invert"
    /\ dispatch.op = "Invert"
    /\ Len(dispatch.img.bytes) = 12

C18_HistogramCountsEveryPixel ==
    (dispatch.pc = "returned" /\ dispatch.op = "ComputeHistogram"
        /\ DispatchTable[dispatch.op].symbol \in dispatch.library) =>
        /\ dispatch.result.outcome = "Ok"
        /\ Len(dispatch.result.value) = 256
        /\ SumSeq(dispatch.result.value) =
              dispatch.image.width * dispatch.image.height

\* The histogram of a 2x2 image that is 128 everywhere has been returned:
\* four pixels in bin 128.
C18_Witness ==
    /\ dispatch.pc = "returned"
    /\ dispatch.op = "ComputeHistogram"
    /\ dispatch.result.outcome = "Ok"
    /\ dispatch.image.width = 2 /\ dispatch.image.height = 2
    /\ dispatch.result.value[129] = 4

\* C19: for every function but compute_histogram the result is the buffer
\* as the backend left it, re-wrapped with the input's width and height: byte
\* k of the result is what the backend made of byte k of the encoded input.
C19_ResultIsMutatedBuffer ==
    (dispatch.pc = "returned" /\ dispatch.op # "ComputeHistogram"
        /\ DispatchTable[dispatch.op].symbol \in dispatch.library) =>
        /\ dispatch.result.outcome = "Ok"
        /\ LET orig == dispatch.image
               out == dispatch.result.value[1]
           IN  /\ out.width = orig.width
               /\ out.height = orig.height
               /\ Len(out.data) = orig.width * orig.height * 3
               /\ \A x \in 0..(orig.width - 1), y \in 0..(orig.height - 1),
                     c \in 0..2 :
                     GetPixel(out, x, y, c) =
                        MutateByte(dispatch.backend, GetPixel(orig, x, y, c))

\* gamma_transform_image on a 2x2 image that is (128,128,128) everywhere,
\* against the backend that halves every byte: (64,64,64) at all four
\* pixels, the backend having seen stride 6, height 2 and 12 bytes.
C19_Witness ==
    /\ dispatch.pc = "returned"
    /\ dispatch.op = "GammaTransform"
    /\ dispatch.backend = "halve"
    /\ dispatch.image.color = "Rgb8"
    /\ dispatch.image.width = 2 /\ dispatch.image.height = 2
    /\ \A k \in 1..12 : dispatch.image.data[k] = 128
    /\ dispatch.result.outcome = "Ok"
    /\ \A x \in 0..1, y \in 0..1, c \in 0..2 :
          GetPixel(dispatch.result.value[1], x, y, c) = 64
    /\ dispatch.observed.width = 6
    /\ dispatch.observed.height = 2
    /\ dispatch.observed.image_len = 12
    /\ dispatch.observed.trailing = <<"gamma">>


C23_FreshHistogramPerCall ==
    dispatch.op = "ComputeHistogram" =>
        /\ dispatch.pc = "encoded"
              => dispatch.histogram = [k \in 1..256 |-> 0]
        /\ dispatch.pc = "called"
              => dispatch.observed.order =
                    <<"image", "image_len", "histogram", "width", "height">>
        /\ (dispatch.pc = "returned" /\ dispatch.result.outcome = "Ok")
              => dispatch.result.value =
                    NativeHistogramCall(dispatch.img.bytes,
                                        [k \in 1..256 |-> 0],
                                        dispatch.observed)

\* A second call of compute_histogram on a 2 x 2 image has returned.
C23_Witness ==
    /\ dispatch.op = "ComputeHistogram"
    /\ dispatch.calls = 1
    /\ dispatch.pc = "returned"
    /\ dispatch.result.outcome = "Ok"
    /\ dispatch.image.width = 2
    /\ dispatch.image.height = 2
    /\ SumSeq(dispatch.result.value) = 4

\* C24: the native call of GaussianBlur has exactly one scalar after the
\* four common arguments, the float sigma, and the native call of BoxFilter
\* has exactly one, the unsigned filter size.
C24_OneTrailingScalar ==
    dispatch.pc = "called" =>
        LET order == dispatch.observed.order
            trailing == SubSeq(order, 5, Len(order))
        IN  /\ dispatch.op = "GaussianBlur" => trailing = <<"sigma">>
            /\ dispatch.op = "BoxFilter" => trailing = <<"filter_size">>


\* C22: an operation submitted while no image is loaded does nothing: its
\* unit claims the guard and goes straight to releasing it, without taking
\* the library lock, entering a native call, sending a message or
\* panicking, and it ends with the guard set Free.
C22_NoImageIsIdle ==
    [][\A u \in Units :
          (kind[u] = "op" /\ captured[u].image = None) =>
              /\ pc'[u] \in {"wait", "claim", "release", "done"}
              /\ pc[u] = "claim" => pc'[u] \in {"claim", "release"}
              /\ libcudaimg' # Some(u)
              /\ SentBy(channel', u) = 0
              /\ (pc[u] # "done" /\ pc'[u] = "done")
                    => op_in_progress' = FALSE]_vars

\* An operation clicked with no image loaded has set the guard and is about
\* to clear it.
C22_Witness ==
    \E u \in Units :
        /\ kind[u] = "op"
        /\ captured[u].image = None
        /\ pc[u] = "release"
        /\ op_in_progress = TRUE
        /\ libcudaimg = None
        /\ channel = <<>>

\* C25: while a native call has not returned the guard stays Busy and no
\* other unit starts a native call, and a frame can always be rendered.
C25_HungCallKeepsGuardBusy ==
    /\ [][\A u \in Units :
            (InNative(u) /\ InNative(u)') =>
                /\ op_in_progress' = TRUE
                /\ \A v \in Units \ {u} : ~InNative(v)']_vars
    /\ [](ENABLED FrameIdle)

\* C26: a unit can be suspended only where it polls the guard: once it has
\* read the guard Free it can always take its next step, up to and
\* including the write that sets the guard Free.
C26_SuspendsOnlyAtGuardPoll ==
    \A u \in Units :
        (pc[u] = "claim" \/ InGuarded(u)) => ENABLED UnitStep(u)

\* C27: the library lock is held by a unit only while that unit is inside
\* its process_image call, not while it sends the result.
C27_LibraryHeldOnlyWhileDispatching ==
    \A u \in Units : libcudaimg = Some(u) => InNative(u)

NoFault == \A u \in Units : pc[u] \notin {"panicked", "faulted"}

MessagesOf(msgs, u) == {msgs[i] : i \in {j \in 1..Len(msgs) : msgs[j].unit = u}}

\* C29: an operation works on what it was given when it was clicked: the
\* unit holds the image and the slider position (gamma, log base, filter
\* size, sigma) of the frame that spawned it, keeps them unchanged while it
\* runs, and the result it sends is computed from them, whatever the
\* current image and the sliders are by then.
C29_WorksOnSnapshot ==
    [][\A u \in Units :
          /\ (pc[u] = "unspawned" /\ kind'[u] = "op") =>
                LET op == captured'[u].op
                    param == captured'[u].param
                IN  /\ captured'[u].image = image
                    /\ op = "GammaTransform"
                          => param = Some(image_modifiers.gamma)
                    /\ op = "LogarithmicTransform"
                          => param = Some(image_modifiers.log_base)
                    /\ op = "BoxFilter"
                          => param = Some(image_modifiers.box_filter_size)
                    /\ op = "GaussianBlur"
                          => param = Some(image_modifiers.gauss_sigma)
          /\ (kind[u] = "op" /\ Running(u)') => captured'[u] = captured[u]
          /\ kind[u] = "op" =>
                \A msg \in MessagesOf(channel', u) \ MessagesOf(channel, u) :
                    LET given == captured[u].image[1] IN
                    /\ msg.image.file = given.file
                    /\ msg.image.ops =
                          Append(given.ops, [name |-> captured[u].op,
                                             param |-> captured[u].param])
      ]_vars

\* A gamma transformation clicked with the slider at position 1 has sent its
\* result, computed with position 1 from the image it was given, while the
\* slider is at position 2 and the current image is another one.
C29_Witness ==
    \E u \in Units :
        /\ kind[u] = "op"
        /\ pc[u] = "release"
        /\ captured[u].op = "GammaTransform"
        /\ captured[u].param = Some(1)
        /\ image_modifiers.gamma = 2
        /\ image # captured[u].image
        /\ \E msg \in MessagesOf(channel, u) :
              /\ msg.image.file = captured[u].image[1].file
              /\ msg.image.ops[Len(msg.image.ops)].param = Some(1)


\* C31: an error in one operation aborts that operation alone: the step in
\* which a unit panics or faults changes neither the application's slots nor
\* the channel, and a unit that is waiting for the guard is never left
\* without a unit that will set the guard Free.
C31_ErrorAbortsOnlyItsOperation ==
    /\ [][\A u \in Units :
            (pc[u] # pc'[u] /\ pc'[u] \in {"panicked", "faulted"})
                => UNCHANGED <<uivars, channel>>]_vars
    /\ [](\A u \in Units :
            (pc[u] = "wait" /\ op_in_progress = TRUE)
                => \E v \in Units : pc[v] = "claim" \/ InGuarded(v))

\* C34: the library lock is only ever held by a unit that has not ended.
C34_TerminatedUnitHoldsNoLibrary ==
    \A u \in Units : libcudaimg = Some(u) => Running(u)

\* One unit has faulted inside its native call and another is inside its
\* own native call, holding the library lock the first one gave up.
C34_Witness ==
    \E u, v \in Units :
        /\ pc[u] = "faulted"
        /\ pc[v] = "native"
        /\ libcudaimg = Some(v)

\* C35: a frame without a click that drains one result changes only that
\* result's slots: OperationFinished sets the modified image and the
\* duration, resets the texture cache and leaves the image and its path;
\* OpenImage sets the image and its path and leaves the modified image and
\* the duration.
C35_ResultChangesOnlyItsSlots ==
    [][(FrameIdle /\ Len(channel) = 1) =>
          LET result == channel[1] IN
          IF result.type = "OperationFinished"
          THEN /\ modified_image' = Some(result.image)
               /\ last_operation_duration' = Some(result.duration)
               /\ texture_map' = TextureMapDefault
               /\ image' = image
               /\ image_path_info' = image_path_info
          ELSE /\ image' = Some(result.image)
               /\ image_path_info' = Some(result.path)
               /\ modified_image' = modified_image
               /\ last_operation_duration' = last_operation_duration]_vars

\* An OpenImage result has been drained, alone, while a modified image and
\* the duration of an operation were in their slots, and they still are.
C35_Witness ==
    /\ Len(lastDrained) = 1
    /\ lastDrained[1].type = "OpenImage"
    /\ image # None
    /\ modified_image # None
    /\ last_operation_duration # None

\* C36: with nothing queued, "Apply current" moves the modified image into
\* the image slot and empties the modified slot, or changes no slot when
\* there is no modified image; "Remove current" empties the modified slot
\* and leaves the image; neither changes the guard, the channel, the library
\* lock or the units.
C36_ApplyAndRemoveCurrent ==
    [][/\ (ClickApplyCurrent /\ channel = <<>>) =>
            /\ IF modified_image # None
               THEN image' = modified_image /\ modified_image' = None
               ELSE UNCHANGED <<image, modified_image>>
            /\ UNCHANGED <<image_path_info, last_operation_duration,
                           op_in_progress, libcudaimg, channel, pc, kind,
                           captured, spawned>>
       /\ (ClickRemoveCurrent /\ channel = <<>>) =>
            /\ modified_image' = None
            /\ UNCHANGED <<image, image_path_info, last_operation_duration,
                           op_in_progress, libcudaimg, channel, pc, kind,
                           captured, spawned>>]_vars

\* A result that was applied is the current image, the modified slot is
\* empty and nothing was drained in the frame that did it.
C36_Witness ==
    /\ image # None
    /\ Len(image[1].ops) = 1
    /\ modified_image = None
    /\ last_operation_duration # None
    /\ lastDrained = <<>>
    /\ channel = <<>>

\* C37: the frame in which an operation is submitted, with nothing queued,
\* leaves the image, the modified image, the path and the duration as they
\* were; the modified texture it clears is reloaded from the result still in
\* the modified slot.
C37_SubmitKeepsPreviousResult ==
    [][(/\ spawned' = spawned + 1
        /\ kind'[spawned + 1] = "op"
        /\ channel = <<>>) =>
          /\ UNCHANGED <<image, modified_image, image_path_info,
                         last_operation_duration>>
          /\ texture_map'.modified_image = (modified_image # None)]_vars

\* An operation has just been submitted and waits, while the result of the
\* operation before it is still in the modified slot.
C37_Witness ==
    \E u \in Units :
        /\ kind[u] = "op"
        /\ pc[u] = "wait"
        /\ modified_image # None
        /\ last_operation_duration # None
        /\ lastDrained = <<>>

\* C38: the frame in which Open Image is clicked, with nothing queued,
\* leaves the image, the modified image and the path empty and the textures
\* unloaded, with the new unit still waiting and the guard untouched; a
\* cancelled dialog takes the unit to its release without a message or a
\* change of the slots, and the release sets the guard Free.
C38_OpenClearsThenCancelIsQuiet ==
    [][/\ (/\ spawned' = spawned + 1
           /\ kind'[spawned + 1] = "open"
           /\ channel = <<>>) =>
             /\ image' = None
             /\ modified_image' = None
             /\ image_path_info' = None
             /\ texture_map' = TextureMapDefault
             /\ pc'[spawned + 1] = "wait"
             /\ op_in_progress' = op_in_progress
       /\ \A u \in Units :
             kind[u] = "open" =>
               /\ (pc[u] = "dialog" /\ pc'[u] = "release")
                     => UNCHANGED <<uivars, channel, op_in_progress>>
               /\ (pc[u] = "release" /\ pc'[u] # "release")
                     => /\ pc'[u] = "done"
                        /\ op_in_progress' = FALSE
                        /\ UNCHANGED <<uivars, channel>>]_vars

\* Open Image was clicked on a loaded image and the dialog was cancelled: the
\* unit is about to release the guard, nothing is queued or was drained, and
\* no image is loaded.
C38_Witness ==
    \E u \in Units :
        /\ kind[u] = "open"
        /\ pc[u] = "release"
        /\ u > 1
        /\ image = None
        /\ image_path_info = None
        /\ channel = <<>>
        /\ op_in_progress = TRUE


\* C40: the mutex around the guard flag is free in every state: no unit
\* holds it while it sleeps, waits for the library lock, is inside a native
\* call or sends, and no fault leaves it held or poisoned; so a frame, which
\* reads the flag for its label, can always be rendered.
C40_FlagMutexHeldOnlyForOneAccess ==
    /\ [](op_in_progress_mutex = MutexFree)
    /\ [](ENABLED FrameIdle)

\* One unit sleeps in its poll loop on a guard that a unit which faulted
\* inside its native call left Busy, and the flag can be read.
C40_Witness ==
    \E u, v \in Units :
        /\ pc[u] = "wait"
        /\ op_in_progress = TRUE
        /\ pc[v] = "faulted"
        /\ FlagLockable


\* C32: the channel never holds more than 32 results; a unit whose send
\* finds it full stays at its send, with the library lock of its operation
\* still held and its guard not released, until a frame has drained the
\* channel, and can send as soon as there is room; results leave the channel
\* only by being received.
C32_ChannelBounded ==
    /\ [](Len(channel) <= 32)
    /\ [](\A u \in Units :
            (pc[u] = "send" /\ Len(channel) < 32) => ENABLED Send(u))
    /\ [][\A u \in Units :
            (pc[u] = "send" /\ Len(channel) = 32) =>
                /\ pc'[u] = "send"
                /\ kind[u] = "op" =>
                      (libcudaimg = Some(u) /\ libcudaimg' = Some(u))]_vars
    /\ [][Len(channel') < Len(channel)
            => (channel' = <<>> /\ lastDrained' = BriefsOf(channel))]_vars

\* An operation has returned from its native call and cannot send: the
\* channel holds 32 results.
C32_Witness ==
    \E u \in Units :
        /\ pc[u] = "send"
        /\ kind[u] = "op"
        /\ Len(channel) = 32
        /\ libcudaimg = Some(u)
        /\ ~ENABLED Send(u)

\* C33: as long as no unit has panicked or faulted, whenever a unit has not
\* ended either some unit can take a step, or a unit is held up by the full
\* channel and the frame that drains it can run: it needs the mutex of the
\* flag for its label, which is free, and neither the guard nor the
\* library lock.
C33_DeadlockFree ==
    (NoFault /\ \E u \in Units : Running(u)) =>
        \/ \E u \in Units : ENABLED UnitStep(u)
        \/ /\ \E u \in Units : pc[u] = "send" /\ Len(channel) = 32
           /\ FlagLockable

\* No unit can take a step: one is held up at its send by the full channel,
\* the other waits for the guard the first one holds.
C33_Witness ==
    /\ NoFault
    /\ \E u, v \in Units :
          /\ pc[u] = "send"
          /\ pc[v] = "wait"
          /\ Len(channel) = 32
    /\ \A u \in Units : ~ENABLED UnitStep(u)


\* The number a digit sequence stands for, when it is below 2^31.
FromLimbs(a) == a[1] + a[2] * Limb + a[3] * Limb * Limb

\* The sizes reaching the backend are the image's own: the length is the
\* byte count and the stride is three times the width, as exact numbers.
SizesExact ==
    LET w == ToLimbs(dispatch.image.width)
        bytes == TimesPixelSize(WideMul(w, ToLimbs(dispatch.image.height)))
    IN  /\ dispatch.result.outcome = "Ok"
        /\ dispatch.observed.image_len = bytes
        /\ dispatch.observed.width = TimesPixelSize(w)

\* C39 as stated: for every image whose w * h * 3 bytes number fewer than
\* 2^32, the length passed to the backend is that number and the stride is
\* w * 3, with no truncation or wrap-around.
C39_SizesFitU32 ==
    dispatch.pc = "measured" =>
        LET w == ToLimbs(dispatch.image.width)
            h == ToLimbs(dispatch.image.height)
        IN  FitsU32(TimesPixelSize(WideMul(w, h))) => SizesExact

\* C39 amended: for every image whose w * h * 3 bytes and whose w * 3 bytes
\* of one row both number fewer than 2^32, the length passed to the backend
\* is the byte count and the stride is w * 3, with no truncation, wrap-around
\* or overflow panic; in particular for every image up to 4096 x 4096, where
\* both are compared as plain integers.
C39_SizesFitU32WhenRowFits ==
    dispatch.pc = "measured" =>
        LET width == dispatch.image.width
            height == dispatch.image.height
            w == ToLimbs(width)
            h == ToLimbs(height)
        IN  /\ ( /\ FitsU32(TimesPixelSize(WideMul(w, h)))
                 /\ FitsU32(TimesPixelSize(w)) ) => SizesExact
            /\ (width <= 4096 /\ height <= 4096) =>
                /\ dispatch.result.outcome = "Ok"
                /\ FromLimbs(dispatch.observed.image_len)
                      = width * height * 3
                /\ FromLimbs(dispatch.observed.width) = width * 3

\* The sizes of a 37837 x 37837 image, the largest square whose bytes fit
\* 32 bits: 4,294,915,707 bytes (3 * 2^30 + 32766 * 2^15 + 13947) and a
\* stride of 113,511.
C39_Witness ==
    /\ dispatch.pc = "measured"
    /\ dispatch.image.width = 37837
    /\ dispatch.image.height = 37837
    /\ dispatch.observed.image_len = <<13947, 32766, 3, 0, 0>>
    /\ FromLimbs(dispatch.observed.width) = 113511

====
